---- MODULE Spec2Model ----
(***************************************************************************)
(* Path extension over a directed, bidirectional graph                     *)
(* (Graph/ExtendPath.h): the bounded depth-first probe lookAhead, the      *)
(* neighbourhood classifiers getSuccessor / getPredecessor /               *)
(* getSingleVertexExtension / trueBranches, and the extension loop         *)
(* extendPath.                                                             *)
(*                                                                         *)
(* A graph is a set of directed edges over the vertices 1..NumVertices     *)
(* (self-loops allowed, no parallel edges).  out_edges and in_edges        *)
(* enumerate a vertex's edges in ascending order of the neighbour; since   *)
(* every labelling of every graph is enumerated, every enumeration order   *)
(* induced by a total order on the vertices is covered.                    *)
(***************************************************************************)
EXTENDS Integers, Sequences, FiniteSets, TLC

\* ------------------------------------------------------------------ bounds
NumVertices == 3
MaxEdges == 3
MaxTrimLen == 2

\* NO_LIMIT, the default of extendPath's maxLen: the largest unsigned value.
\* The largest integer TLC has stands for it; the code asks of it only that
\* no path is that long.
NO_LIMIT == 2147483647

Vertex == 1..NumVertices
FORWARD == "FORWARD"
REVERSE == "REVERSE"
Direction == {FORWARD, REVERSE}

\* a null pointer
NULL == 0
\* no result yet
NONE == "none"

\* ---------------------------------------------------------------- results
DEAD_END == "DEAD_END"
BRANCHING_POINT == "BRANCHING_POINT"
CYCLE == "CYCLE"
LENGTH_LIMIT == "LENGTH_LIMIT"
EXTENDED_TO_DEAD_END == "EXTENDED_TO_DEAD_END"
EXTENDED_TO_BRANCHING_POINT == "EXTENDED_TO_BRANCHING_POINT"
EXTENDED_TO_CYCLE == "EXTENDED_TO_CYCLE"
EXTENDED_TO_LENGTH_LIMIT == "EXTENDED_TO_LENGTH_LIMIT"

PathExtensionResult ==
  {DEAD_END, BRANCHING_POINT, CYCLE, LENGTH_LIMIT, EXTENDED_TO_DEAD_END,
   EXTENDED_TO_BRANCHING_POINT, EXTENDED_TO_CYCLE, EXTENDED_TO_LENGTH_LIMIT}

pathExtended(r) ==
  CASE r = DEAD_END -> FALSE
    [] r = BRANCHING_POINT -> FALSE
    [] r = CYCLE -> FALSE
    [] r = LENGTH_LIMIT -> FALSE
    [] OTHER -> TRUE

SE_DEAD_END == "SE_DEAD_END"
SE_BRANCHING_POINT == "SE_BRANCHING_POINT"
SE_EXTENDED == "SE_EXTENDED"

\* ------------------------------------------------------------------ graph
RECURSIVE SortedSeq(_)
SortedSeq(S) ==
  IF S = {} THEN <<>>
  ELSE LET m == CHOOSE x \in S : \A y \in S : x <= y
       IN <<m>> \o SortedSeq(S \ {m})

\* the graph with edge set E: each vertex's out- and in-neighbours, in the
\* order the edge iterators give them
MkGraph(E) ==
  [out |-> [u \in Vertex |-> SortedSeq({w \in Vertex : <<u, w>> \in E})],
   in  |-> [u \in Vertex |-> SortedSeq({w \in Vertex : <<w, u>> \in E})]]

Graphs == {MkGraph(E) : E \in {F \in SUBSET (Vertex \X Vertex) : Cardinality(F) <= MaxEdges}}

\* targets of out_edges(u, g), in iteration order
out_edges(u, g) == g.out[u]
\* sources of in_edges(u, g), in iteration order
in_edges(u, g) == g.in[u]

\* -------------------------------------------------------------- lookAhead
\* The recursive overload.  visited is passed by reference: the value
\* returned carries the set as the call leaves it, and the largest value of
\* depth any call of the recursion was entered with.
RECURSIVE lookAheadVisited(_, _, _, _, _, _)
RECURSIVE lookAheadEdges(_, _, _, _, _, _, _, _)
RECURSIVE lookAheadEdgesRevisiting(_, _, _, _, _, _, _, _)
lookAheadVisited(u, dir, depth, depthLimit, visited, g) ==
  LET vis == visited \cup {u}
  IN IF depth = depthLimit
       THEN [found |-> TRUE, visited |-> vis, deepest |-> depth]
       ELSE lookAheadEdges(IF dir = FORWARD THEN out_edges(u, g) ELSE in_edges(u, g),
                           1, dir, depth, depthLimit, vis, g, depth)

\* mutant: the loop over the edges does not skip a visited neighbour
lookAheadEdgesRevisiting(nbrs, i, dir, depth, depthLimit, visited, g, deepest) ==
  IF i > Len(nbrs)
    THEN [found |-> FALSE, visited |-> visited, deepest |-> deepest]
    ELSE LET r == lookAheadVisited(nbrs[i], dir, depth + 1, depthLimit, visited, g)
             deep == IF r.deepest > deepest THEN r.deepest ELSE deepest
         IN IF r.found
              THEN [found |-> TRUE, visited |-> r.visited, deepest |-> deep]
              ELSE lookAheadEdgesRevisiting(nbrs, i + 1, dir, depth, depthLimit,
                                            r.visited, g, deep)

\* the for loop over the edges of u, from the i-th edge on; deepest is the
\* deepest level entered so far
lookAheadEdges(nbrs, i, dir, depth, depthLimit, visited, g, deepest) ==
  IF i > Len(nbrs)
    THEN [found |-> FALSE, visited |-> visited, deepest |-> deepest]
    ELSE LET v == nbrs[i]
         IN IF v \notin visited
              THEN LET r == lookAheadVisited(v, dir, depth + 1, depthLimit, visited, g)
                       deep == IF r.deepest > deepest THEN r.deepest ELSE deepest
                   IN IF r.found
                        THEN [found |-> TRUE, visited |-> r.visited, deepest |-> deep]
                        ELSE lookAheadEdges(nbrs, i + 1, dir, depth, depthLimit,
                                            r.visited, g, deep)
              ELSE lookAheadEdges(nbrs, i + 1, dir, depth, depthLimit, visited, g, deepest)

\* mutant: the probe starts counting at depth 1
lookAheadFromOne(start, dir, depth, g) ==
  lookAheadVisited(start, dir, 1, depth, {}, g).found

\* The public overload: a fresh visited set per probe.
lookAhead(start, dir, depth, g) ==
  lookAheadVisited(start, dir, 0, depth, {}, g).found

\* ----------------------------------------------------------- trueBranches
RECURSIVE trueBranchesFrom(_, _, _, _, _)
trueBranchesFrom(nbrs, i, dir, g, trimLen) ==
  IF i > Len(nbrs) THEN <<>>
  ELSE (IF lookAhead(nbrs[i], dir, trimLen, g) THEN <<nbrs[i]>> ELSE <<>>)
       \o trueBranchesFrom(nbrs, i + 1, dir, g, trimLen)

trueBranches(u, dir, g, trimLen) ==
  trueBranchesFrom(IF dir = FORWARD THEN out_edges(u, g) ELSE in_edges(u, g),
                   1, dir, g, trimLen)

\* ----------------------------------------------------------- getSuccessor
\* successor is the value of *successor before the call, or NULL for a null
\* pointer; the record returned carries *successor as the call leaves it.
RECURSIVE getSuccessorLoop(_, _, _, _, _, _)
getSuccessorLoop(nbrs, i, tb, successor, g, trimLen) ==
  IF i > Len(nbrs)
    THEN [result |-> IF tb = 0 THEN SE_DEAD_END
                     ELSE IF tb = 1 THEN SE_EXTENDED
                     ELSE SE_BRANCHING_POINT,
          successor |-> successor]
    ELSE IF lookAhead(nbrs[i], FORWARD, trimLen, g)
      THEN IF tb + 1 >= 2
             THEN [result |-> SE_BRANCHING_POINT, successor |-> successor]
             ELSE getSuccessorLoop(nbrs, i + 1, tb + 1,
                                   IF successor # NULL THEN nbrs[i] ELSE successor,
                                   g, trimLen)
      ELSE getSuccessorLoop(nbrs, i + 1, tb, successor, g, trimLen)

\* mutant: a lone neighbour is probed like the others
getSuccessorFiltered(v, g, trimLen, successor) ==
  LET nbrs == out_edges(v, g)
  IN IF Len(nbrs) = 0
       THEN [result |-> SE_DEAD_END, successor |-> successor]
       ELSE getSuccessorLoop(nbrs, 2,
                             IF lookAhead(nbrs[1], FORWARD, trimLen, g) THEN 1 ELSE 0,
                             IF successor # NULL THEN nbrs[1] ELSE successor,
                             g, trimLen)

getSuccessor(v, g, trimLen, successor) ==
  LET nbrs == out_edges(v, g)
  IN IF Len(nbrs) = 0
       THEN [result |-> SE_DEAD_END, successor |-> successor]
     ELSE IF Len(nbrs) = 1
       THEN [result |-> SE_EXTENDED,
             successor |-> IF successor # NULL THEN nbrs[1] ELSE successor]
     ELSE getSuccessorLoop(nbrs, 2,
                           IF lookAhead(nbrs[1], FORWARD, trimLen, g) THEN 1 ELSE 0,
                           successor, g, trimLen)

\* --------------------------------------------------------- getPredecessor
RECURSIVE getPredecessorLoop(_, _, _, _, _, _)
getPredecessorLoop(nbrs, i, tb, predecessor, g, trimLen) ==
  IF i > Len(nbrs)
    THEN [result |-> IF tb = 0 THEN SE_DEAD_END
                     ELSE IF tb = 1 THEN SE_EXTENDED
                     ELSE SE_BRANCHING_POINT,
          predecessor |-> predecessor]
    ELSE IF lookAhead(nbrs[i], REVERSE, trimLen, g)
      THEN IF tb + 1 >= 2
             THEN [result |-> SE_BRANCHING_POINT, predecessor |-> predecessor]
             ELSE getPredecessorLoop(nbrs, i + 1, tb + 1,
                                     IF predecessor # NULL THEN nbrs[i] ELSE predecessor,
                                     g, trimLen)
      ELSE getPredecessorLoop(nbrs, i + 1, tb, predecessor, g, trimLen)

getPredecessor(v, g, trimLen, predecessor) ==
  LET nbrs == in_edges(v, g)
  IN IF Len(nbrs) = 0
       THEN [result |-> SE_DEAD_END, predecessor |-> predecessor]
     ELSE IF Len(nbrs) = 1
       THEN [result |-> SE_EXTENDED,
             predecessor |-> IF predecessor # NULL THEN nbrs[1] ELSE predecessor]
     ELSE getPredecessorLoop(nbrs, 2,
                             IF lookAhead(nbrs[1], REVERSE, trimLen, g) THEN 1 ELSE 0,
                             predecessor, g, trimLen)

\* ----------------------------------------------- getSingleVertexExtension
\* mutant: the side opposite to dir is not looked at
getSingleVertexExtensionOneSided(v, dir, g, trimLen, vNext) ==
  IF dir = FORWARD
    THEN LET r == getSuccessor(v, g, trimLen, vNext)
         IN [result |-> r.result, vNext |-> r.successor]
    ELSE LET r == getPredecessor(v, g, trimLen, vNext)
         IN [result |-> r.result, vNext |-> r.predecessor]

\* vNext is the referenced variable's value before the call; the record
\* returned carries it as the call leaves it.
getSingleVertexExtension(v, dir, g, trimLen, vNext) ==
  LET opposite == IF dir = FORWARD
                    THEN getPredecessor(v, g, trimLen, NULL).result
                    ELSE getSuccessor(v, g, trimLen, NULL).result
  IN IF opposite = SE_BRANCHING_POINT
       THEN [result |-> SE_BRANCHING_POINT, vNext |-> vNext]
     ELSE IF dir = FORWARD
       THEN LET r == getSuccessor(v, g, trimLen, vNext)
            IN [result |-> r.result, vNext |-> r.successor]
       ELSE LET r == getPredecessor(v, g, trimLen, vNext)
            IN [result |-> r.result, vNext |-> r.predecessor]

\* ----------------------------------------------- extendPathBySingleVertex
\* mutant: the new vertex goes to the back whatever the direction
extendPathBySingleVertexAlwaysBack(path, dir, g, trimLen, vNext) ==
  LET v == IF dir = FORWARD THEN path[Len(path)] ELSE path[1]
      r == getSingleVertexExtension(v, dir, g, trimLen, vNext)
  IN [result |-> r.result,
      path |-> IF r.result = SE_EXTENDED THEN Append(path, r.vNext) ELSE path]

\* vNext is what the uninitialised local V vNext happens to hold.
extendPathBySingleVertex(path, dir, g, trimLen, vNext) ==
  LET v == IF dir = FORWARD THEN path[Len(path)] ELSE path[1]
      r == getSingleVertexExtension(v, dir, g, trimLen, vNext)
  IN [result |-> r.result,
      path |-> IF r.result = SE_EXTENDED
                 THEN IF dir = FORWARD THEN Append(path, r.vNext)
                      ELSE <<r.vNext>> \o path
                 ELSE path]

\* ------------------------------------------------------------- extendPath
VARIABLES
  g,              \* the graph (read-only)
  path,           \* the caller's path
  visited,        \* the caller's visited set
  dir, trimLen, maxLen,   \* the arguments of the call in progress
  pc,             \* "idle" | "loop" | "done": position in extendPath
  origPath,       \* path on entry (origPathLen is its length)
  origVisited,    \* visited on entry
  result,         \* SingleExtensionResult of the last loop iteration
  detectedCycle,
  steps,          \* loop iterations of the call in progress
  ret,            \* PathExtensionResult returned, NONE before the return
  first,          \* what the first of two calls returned and left behind
  probe           \* arguments and outcome of a classifier call

vars == <<g, path, visited, dir, trimLen, maxLen, pc, origPath, origVisited,
          result, detectedCycle, steps, ret, first, probe>>

Range(s) == {s[i] : i \in 1..Len(s)}

\* mutant: the entry test stops one vertex short of maxLen
lengthLimitOnEntryEarly(p, mLen) ==
  Len(p) # NO_LIMIT /\ Len(p) + 1 >= mLen

\* the test on entry: the path already has maxLen vertices or more
lengthLimitOnEntry(p, mLen) ==
  Len(p) # NO_LIMIT /\ Len(p) >= mLen

\* mutant: the loop does not look at maxLen
loopConditionNoLimit(res, cyc, p, mLen) ==
  res = SE_EXTENDED /\ ~cyc

\* mutant: the loop does not stop on a detected cycle
loopConditionNoCycle(res, cyc, p, mLen) ==
  res = SE_EXTENDED /\ Len(p) < mLen

\* the while condition of the extension loop
loopCondition(res, cyc, p, mLen) ==
  res = SE_EXTENDED /\ ~cyc /\ Len(p) < mLen

\* mutant: "grew" is decided by >= instead of >
resultCodeNotShorter(p, origPathLen, cyc, res) ==
  IF Len(p) >= origPathLen
    THEN IF cyc THEN EXTENDED_TO_CYCLE
         ELSE IF res = SE_DEAD_END THEN EXTENDED_TO_DEAD_END
         ELSE IF res = SE_BRANCHING_POINT THEN EXTENDED_TO_BRANCHING_POINT
         ELSE EXTENDED_TO_LENGTH_LIMIT
    ELSE IF cyc THEN CYCLE
         ELSE IF res = SE_DEAD_END THEN DEAD_END
         ELSE IF res = SE_BRANCHING_POINT THEN BRANCHING_POINT
         ELSE LENGTH_LIMIT

\* mutant: three outcomes only, a stop at maxLen is reported as a dead end
resultCodeNoLengthLimit(p, origPathLen, cyc, res) ==
  IF Len(p) > origPathLen
    THEN IF cyc THEN EXTENDED_TO_CYCLE
         ELSE IF res = SE_BRANCHING_POINT THEN EXTENDED_TO_BRANCHING_POINT
         ELSE EXTENDED_TO_DEAD_END
    ELSE IF cyc THEN CYCLE
         ELSE IF res = SE_BRANCHING_POINT THEN BRANCHING_POINT
         ELSE DEAD_END

\* the result code chosen after the loop
resultCode(p, origPathLen, cyc, res) ==
  IF Len(p) > origPathLen
    THEN IF cyc THEN EXTENDED_TO_CYCLE
         ELSE IF res = SE_DEAD_END THEN EXTENDED_TO_DEAD_END
         ELSE IF res = SE_BRANCHING_POINT THEN EXTENDED_TO_BRANCHING_POINT
         ELSE EXTENDED_TO_LENGTH_LIMIT
    ELSE IF cyc THEN CYCLE
         ELSE IF res = SE_DEAD_END THEN DEAD_END
         ELSE IF res = SE_BRANCHING_POINT THEN BRANCHING_POINT
         ELSE LENGTH_LIMIT

\* mutant: the vertex is taken off the back whatever the direction
popBack(p, d) ==
  SubSeq(p, 1, Len(p) - 1)

\* path.pop_back() / path.pop_front()
popLast(p, d) ==
  IF d = FORWARD THEN SubSeq(p, 1, Len(p) - 1) ELSE SubSeq(p, 2, Len(p))

\* mutant: the last vertex is removed whether or not it is a repeat
rollBackAlways(p, cyc, d) ==
  popLast(p, d)

\* mutant: a repeated vertex is left on the path
rollBackNever(p, cyc, d) ==
  p

\* the roll-back after the loop: the vertex added last is a repeat
rollBack(p, cyc, d) ==
  IF cyc THEN popLast(p, d) ELSE p

\* mutant: the vertex added is not recorded
insertVisitedNever(vis, v) ==
  vis

\* visited.insert(v)
insertVisited(vis, v) ==
  vis \cup {v}

\* the end of the path that extension in direction d works on
frontier(p, d) ==
  IF d = FORWARD THEN p[Len(p)] ELSE p[1]

\* -------------------------------------------------- the callers of extendPath
MaxEntryLen == 2
MaxLenBound == 2

TrimLens == 0..MaxTrimLen
MaxLens == (0..MaxLenBound) \cup {NO_LIMIT}
EntryPaths == UNION {[1..n -> Vertex] : n \in 1..MaxEntryLen}

Init ==
  /\ g \in Graphs
  /\ path \in EntryPaths
  /\ visited \in SUBSET Vertex
  /\ dir = FORWARD /\ trimLen = 0 /\ maxLen = NO_LIMIT
  /\ pc = "idle"
  /\ origPath = path /\ origVisited = visited
  /\ result = SE_EXTENDED /\ detectedCycle = FALSE /\ steps = 0
  /\ ret = NONE /\ first = [ret |-> NONE] /\ probe = [op |-> "none"]

\* entry of extendPath(path, dir, g, visited, trimLen, maxLen) up to the loop
Enter(d, t, m, vis) ==
  /\ dir' = d /\ trimLen' = t /\ maxLen' = m
  /\ visited' = vis
  /\ origPath' = path /\ origVisited' = vis
  /\ steps' = 0
  /\ IF lengthLimitOnEntry(path, m)
       THEN /\ pc' = "done" /\ ret' = LENGTH_LIMIT
            /\ UNCHANGED <<result, detectedCycle>>
       ELSE /\ pc' = "loop" /\ ret' = NONE
            /\ result' = SE_EXTENDED /\ detectedCycle' = FALSE
  /\ UNCHANGED <<g, path, probe>>

\* the caller passes its own visited set
Call ==
  /\ pc = "idle"
  /\ \E d \in Direction, t \in TrimLens, m \in MaxLens : Enter(d, t, m, visited)
  /\ UNCHANGED first

\* the overload without visited: the set is seeded from the path
CallSeeded ==
  /\ pc = "idle"
  /\ \E d \in Direction, t \in TrimLens, m \in MaxLens : Enter(d, t, m, Range(path))
  /\ UNCHANGED first

\* a second call with the same direction, graph, trimLen and maxLen on the
\* path and the visited set the first call left
Repeat ==
  /\ pc = "done" /\ ret # NONE
  /\ first.ret = NONE
  /\ first' = [ret |-> ret, path |-> path, visited |-> visited]
  /\ Enter(dir, trimLen, maxLen, visited)

\* one iteration of the while loop
Step ==
  /\ pc = "loop"
  /\ loopCondition(result, detectedCycle, path, maxLen)
  /\ \E vNext \in Vertex :
       LET r == extendPathBySingleVertex(path, dir, g, trimLen, vNext)
           added == frontier(r.path, dir)
       IN /\ result' = r.result
          /\ path' = r.path
          /\ IF r.result = SE_EXTENDED
               THEN /\ visited' = insertVisited(visited, added)
                    /\ detectedCycle' = (added \in visited)
               ELSE UNCHANGED <<visited, detectedCycle>>
  /\ steps' = steps + 1
  /\ UNCHANGED <<g, dir, trimLen, maxLen, pc, origPath, origVisited, ret, first, probe>>

\* after the loop: roll back a repeated vertex and pick the result code
Return ==
  /\ pc = "loop"
  /\ ~loopCondition(result, detectedCycle, path, maxLen)
  /\ LET p == rollBack(path, detectedCycle, dir)
     IN /\ path' = p
        /\ ret' = resultCode(p, Len(origPath), detectedCycle, result)
  /\ pc' = "done"
  /\ UNCHANGED <<g, visited, dir, trimLen, maxLen, origPath, origVisited,
                 result, detectedCycle, steps, first, probe>>

Next == Call \/ CallSeeded \/ Repeat \/ Step \/ Return

Spec == Init /\ [][Next]_vars

\* ------------------------------------------- the callers of the classifiers
InitProbe ==
  /\ g \in Graphs
  /\ path = <<>> /\ visited = {}
  /\ dir = FORWARD /\ trimLen = 0 /\ maxLen = NO_LIMIT
  /\ pc = "idle"
  /\ origPath = <<>> /\ origVisited = {}
  /\ result = SE_EXTENDED /\ detectedCycle = FALSE /\ steps = 0
  /\ ret = NONE /\ first = [ret |-> NONE] /\ probe = [op |-> "none"]

Probed(rec) ==
  /\ pc = "idle"
  /\ pc' = "done"
  /\ probe' = rec
  /\ UNCHANGED <<g, path, visited, dir, trimLen, maxLen, origPath, origVisited,
                 result, detectedCycle, steps, ret, first>>

CallLookAhead ==
  \E start \in Vertex, d \in Direction, depth \in TrimLens :
    Probed([op |-> "lookAhead", v |-> start, dir |-> d, trimLen |-> depth,
            found |-> lookAhead(start, d, depth, g),
            deepest |-> lookAheadVisited(start, d, 0, depth, {}, g).deepest])

CallTrueBranches ==
  \E u \in Vertex, d \in Direction, t \in TrimLens :
    Probed([op |-> "trueBranches", v |-> u, dir |-> d, trimLen |-> t,
            branchRoots |-> trueBranches(u, d, g, t)])

\* before: what the caller's variable held; NULL: the caller passed no pointer
CallGetSuccessor ==
  \E v \in Vertex, t \in TrimLens, before \in Vertex \cup {NULL} :
    LET r == getSuccessor(v, g, t, before)
    IN Probed([op |-> "getSuccessor", v |-> v, dir |-> FORWARD, trimLen |-> t,
               before |-> before, result |-> r.result, vNext |-> r.successor])

CallGetPredecessor ==
  \E v \in Vertex, t \in TrimLens, before \in Vertex \cup {NULL} :
    LET r == getPredecessor(v, g, t, before)
    IN Probed([op |-> "getPredecessor", v |-> v, dir |-> REVERSE, trimLen |-> t,
               before |-> before, result |-> r.result, vNext |-> r.predecessor])

CallGetSingleVertexExtension ==
  \E v \in Vertex, d \in Direction, t \in TrimLens, before \in Vertex :
    LET r == getSingleVertexExtension(v, d, g, t, before)
    IN Probed([op |-> "getSingleVertexExtension", v |-> v, dir |-> d, trimLen |-> t,
               before |-> before, result |-> r.result, vNext |-> r.vNext])

\* p: the caller's path; before: what the local vNext happens to hold
CallExtendPathBySingleVertex ==
  \E p \in EntryPaths, d \in Direction, t \in TrimLens, before \in Vertex :
    LET r == extendPathBySingleVertex(p, d, g, t, before)
    IN Probed([op |-> "extendPathBySingleVertex", v |-> frontier(p, d), dir |-> d,
               trimLen |-> t, before |-> before, result |-> r.result,
               pathBefore |-> p, pathAfter |-> r.path])

NextProbe ==
  \/ CallLookAhead
  \/ CallTrueBranches
  \/ CallGetSuccessor
  \/ CallGetPredecessor
  \/ CallGetSingleVertexExtension

SpecProbe == InitProbe /\ [][NextProbe]_vars

\* the callers of extendPathBySingleVertex
SpecSingle == InitProbe /\ [][CallExtendPathBySingleVertex]_vars

\* the same calls on every graph over the vertices, dense ones included
AllGraphs == {MkGraph(E) : E \in SUBSET (Vertex \X Vertex)}

InitDense ==
  /\ g \in AllGraphs
  /\ path = <<>> /\ visited = {}
  /\ dir = FORWARD /\ trimLen = 0 /\ maxLen = NO_LIMIT
  /\ pc = "idle"
  /\ origPath = <<>> /\ origVisited = {}
  /\ result = SE_EXTENDED /\ detectedCycle = FALSE /\ steps = 0
  /\ ret = NONE /\ first = [ret |-> NONE] /\ probe = [op |-> "none"]

SpecDense == InitDense /\ [][NextProbe]_vars

\* ================================================================ properties
NoDuplicates(p) == \A i, j \in 1..Len(p) : p[i] = p[j] => i = j

\* the call was made as the interface asks: a non-empty path whose vertices
\* are all in the visited set
EntryContract == Len(origPath) > 0 /\ Range(origPath) \subseteq origVisited

Returned == pc = "done" /\ ret # NONE

\* C1: extendPath returns one of the four EXTENDED_TO_ codes exactly when the
\* path is longer on return than on entry, and one of the four other codes
\* otherwise.
C1_ExtendedIffLonger ==
  (Returned /\ EntryContract)
  => /\ ret \in PathExtensionResult
     /\ pathExtended(ret) <=> Len(path) > Len(origPath)
     /\ pathExtended(ret) <=> ret \in {EXTENDED_TO_DEAD_END, EXTENDED_TO_BRANCHING_POINT,
                                       EXTENDED_TO_CYCLE, EXTENDED_TO_LENGTH_LIMIT}

C1_Witness ==
  /\ Returned /\ EntryContract
  /\ ret = EXTENDED_TO_CYCLE
  /\ Len(path) = Len(origPath) + 1
  /\ steps = 2

\* C4 (as claimed): after CYCLE or EXTENDED_TO_CYCLE, from a call that kept
\* the entry contract, the returned path holds no vertex twice.
C4_NoDuplicatesAfterCycle ==
  (Returned /\ EntryContract /\ ret \in {CYCLE, EXTENDED_TO_CYCLE})
  => NoDuplicates(path)

\* C4 (amended): the same, for an entry path that holds no vertex twice.
C4_NoDuplicatesKept ==
  (Returned /\ EntryContract /\ ret \in {CYCLE, EXTENDED_TO_CYCLE}
   /\ NoDuplicates(origPath))
  => NoDuplicates(path)

C4_Witness ==
  /\ Returned /\ EntryContract /\ NoDuplicates(origPath)
  /\ ret = EXTENDED_TO_CYCLE
  /\ Len(origPath) = 2
  /\ Len(path) = 3

\* C9: extendPath never returns a path shorter than the one it was given,
\* whatever the visited set holds, a rolled-back cycle included.
C9_NeverShorter ==
  Returned => Len(path) >= Len(origPath)

C9_Witness ==
  /\ Returned
  /\ ret = CYCLE
  /\ steps = 1
  /\ Len(path) = Len(origPath)
  /\ ~(Range(origPath) \subseteq origVisited)

\* the vertices that have an edge
Support(gr) == {v \in Vertex : Len(gr.out[v]) > 0 \/ Len(gr.in[v]) > 0}

RECURSIVE Reach(_, _, _)
\* the vertices met in n steps along the first out-edge, from v
Reach(v, n, gr) ==
  IF n = 0 \/ Len(gr.out[v]) = 0 THEN {v}
  ELSE {v} \cup Reach(gr.out[v][1], n - 1, gr)

\* the graph is one directed cycle through all the vertices that have an edge
IsSingleCycle(gr) ==
  /\ Support(gr) # {}
  /\ \A v \in Support(gr) : Len(gr.out[v]) = 1 /\ Len(gr.in[v]) = 1
  /\ \A v \in Support(gr) : Reach(v, NumVertices, gr) = Support(gr)

\* p runs once around the cycle, each vertex followed by its successor
InCycleOrder(p, gr) ==
  /\ NoDuplicates(p)
  /\ Range(p) = Support(gr)
  /\ \A i \in 1..Len(p) - 1 : gr.out[p[i]] = <<p[i + 1]>>
  /\ gr.out[p[Len(p)]] = <<p[1]>>

\* a call through the overload that seeds visited, on a one-vertex path that
\* lies on the single cycle the graph is, with no length limit in the way
OnSingleCycle ==
  /\ Returned
  /\ IsSingleCycle(g)
  /\ Len(origPath) = 1
  /\ origPath[1] \in Support(g)
  /\ origVisited = Range(origPath)
  /\ maxLen > Cardinality(Support(g))

\* what every step of a call does once a vertex that was already visited has
\* been added: that vertex, and no other, comes off the same end, no further
\* vertex is added, and the call returns CYCLE or EXTENDED_TO_CYCLE
CycleStep ==
  /\ (pc = "loop" /\ Len(path') = Len(path) + 1 /\ frontier(path', dir) \in visited)
       => (pc' = "loop" /\ detectedCycle' /\ visited' = visited)
  /\ (pc = "loop" /\ detectedCycle)
       => /\ pc' = "done"
          /\ path = (IF dir = FORWARD THEN Append(path', path[Len(path)])
                                      ELSE <<path[1]>> \o path')
          /\ visited' = visited
          /\ ret' = (IF Len(path') > Len(origPath) THEN EXTENDED_TO_CYCLE ELSE CYCLE)

\* C10 (as claimed), the part a state shows: a call that detected a cycle
\* returns CYCLE or EXTENDED_TO_CYCLE, and on a graph that is a single
\* directed cycle the call from a one-vertex path returns EXTENDED_TO_CYCLE
\* with the whole cycle, in order, on the path.
C10_SingleCycleExtended ==
  /\ (Returned /\ detectedCycle) => ret \in {CYCLE, EXTENDED_TO_CYCLE}
  /\ OnSingleCycle => (ret = EXTENDED_TO_CYCLE /\ InCycleOrder(path, g))

\* C10 (amended): every step after a repeated vertex was added rolls exactly
\* that vertex back and returns CYCLE or EXTENDED_TO_CYCLE; on a single
\* directed cycle of two or more vertices the result is EXTENDED_TO_CYCLE
\* with the whole cycle, in order, on the path; on a cycle of one vertex (a
\* self-loop) it is CYCLE and the path is unchanged.
C10_CycleRolledBack ==
  /\ [][CycleStep]_vars
  /\ [](OnSingleCycle =>
          /\ InCycleOrder(path, g)
          /\ ret = (IF Cardinality(Support(g)) >= 2 THEN EXTENDED_TO_CYCLE ELSE CYCLE))

C10_Witness ==
  /\ OnSingleCycle
  /\ Cardinality(Support(g)) = 3
  /\ dir = REVERSE
  /\ ret = EXTENDED_TO_CYCLE
  /\ Len(path) = 3

neighbours(v, d, gr) == IF d = FORWARD THEN out_edges(v, gr) ELSE in_edges(v, gr)

\* a simple path in direction d from v with n more vertices, none in used
RECURSIVE HasSimplePath(_, _, _, _, _)
HasSimplePath(v, d, n, used, gr) ==
  \/ n = 0
  \/ \E w \in Range(neighbours(v, d, gr)) \ used :
       HasSimplePath(w, d, n - 1, used \cup {w}, gr)

\* positions in v's edge list whose neighbour passes the probe
Passing(v, d, t, gr) ==
  {i \in 1..Len(neighbours(v, d, gr)) : lookAhead(neighbours(v, d, gr)[i], d, t, gr)}

ProbedSide == pc = "done" /\ probe.op \in {"getSuccessor", "getPredecessor"}

\* C2 (as claimed): on a vertex with two or more edges on the probed side of
\* which exactly one neighbour passes lookAhead, getSuccessor /
\* getPredecessor return SE_EXTENDED and hand back that neighbour, wherever
\* it stands in the edge order.
C2_UniqueTrueBranchReturned ==
  (/\ ProbedSide
   /\ probe.before # NULL
   /\ Len(neighbours(probe.v, probe.dir, g)) >= 2
   /\ Cardinality(Passing(probe.v, probe.dir, probe.trimLen, g)) = 1)
  => /\ probe.result = SE_EXTENDED
     /\ \A i \in Passing(probe.v, probe.dir, probe.trimLen, g) :
          probe.vNext = neighbours(probe.v, probe.dir, g)[i]

\* C3 (as claimed): lookAhead(start, dir, depthLimit, g) is true exactly when
\* the graph has a simple path from start in direction dir with depthLimit
\* vertices after start.
C3_LookAheadIffSimplePath ==
  (pc = "done" /\ probe.op = "lookAhead")
  => (probe.found <=> HasSimplePath(probe.v, probe.dir, probe.trimLen, {probe.v}, g))

\* C5: getSingleVertexExtension returns SE_BRANCHING_POINT whenever the side
\* opposite to dir is a branching point, and otherwise the classification
\* and the candidate of the side matching dir.
C5_OppositeSideFirst ==
  (pc = "done" /\ probe.op = "getSingleVertexExtension")
  => LET opposite == IF probe.dir = FORWARD
                       THEN getPredecessor(probe.v, g, probe.trimLen, NULL).result
                       ELSE getSuccessor(probe.v, g, probe.trimLen, NULL).result
         same == IF probe.dir = FORWARD
                   THEN getSuccessor(probe.v, g, probe.trimLen, probe.before)
                   ELSE getPredecessor(probe.v, g, probe.trimLen, probe.before)
         candidate == IF probe.dir = FORWARD THEN same.successor ELSE same.predecessor
     IN IF opposite = SE_BRANCHING_POINT
          THEN probe.result = SE_BRANCHING_POINT
          ELSE probe.result = same.result /\ probe.vNext = candidate

C5_Witness ==
  /\ pc = "done" /\ probe.op = "getSingleVertexExtension"
  /\ probe.dir = FORWARD
  /\ getPredecessor(probe.v, g, probe.trimLen, NULL).result = SE_BRANCHING_POINT
  /\ getSuccessor(probe.v, g, probe.trimLen, probe.before).result = SE_EXTENDED
  /\ probe.result = SE_BRANCHING_POINT

\* C6 (as claimed): on a vertex with two or more edges on the probed side the
\* result is SE_DEAD_END, SE_EXTENDED or SE_BRANCHING_POINT as 0, 1 or more
\* neighbours pass lookAhead; that number is the length of trueBranches; and
\* two neighbours that each start a branch of trimLen+1 vertices give
\* SE_BRANCHING_POINT.
C6_ClassifiedByTrueBranches ==
  (ProbedSide /\ Len(neighbours(probe.v, probe.dir, g)) >= 2)
  => LET n == Cardinality(Passing(probe.v, probe.dir, probe.trimLen, g))
         long == {i \in 1..Len(neighbours(probe.v, probe.dir, g)) :
                    HasSimplePath(neighbours(probe.v, probe.dir, g)[i], probe.dir,
                                  probe.trimLen,
                                  {neighbours(probe.v, probe.dir, g)[i]}, g)}
     IN /\ probe.result = (IF n = 0 THEN SE_DEAD_END
                           ELSE IF n = 1 THEN SE_EXTENDED
                           ELSE SE_BRANCHING_POINT)
        /\ n = Len(trueBranches(probe.v, probe.dir, g, probe.trimLen))
        /\ Cardinality(long) >= 2 => probe.result = SE_BRANCHING_POINT

\* C7: with exactly one edge on the probed side getSuccessor /
\* getPredecessor return SE_EXTENDED and hand back that neighbour, whatever
\* trimLen is and whether or not the neighbour passes lookAhead.
C7_LoneNeighbourTaken ==
  (ProbedSide /\ Len(neighbours(probe.v, probe.dir, g)) = 1)
  => /\ probe.result = SE_EXTENDED
     /\ probe.before # NULL => probe.vNext = neighbours(probe.v, probe.dir, g)[1]

C7_Witness ==
  /\ ProbedSide
  /\ Len(neighbours(probe.v, probe.dir, g)) = 1
  /\ probe.before # NULL
  /\ probe.before # neighbours(probe.v, probe.dir, g)[1]
  /\ ~lookAhead(neighbours(probe.v, probe.dir, g)[1], probe.dir, probe.trimLen, g)
  /\ probe.result = SE_EXTENDED
  /\ probe.vNext = neighbours(probe.v, probe.dir, g)[1]

\* C8: lookAhead is monotone in its depth: a probe that succeeds at depth d
\* succeeds at every depth d' <= d.
C8_LookAheadMonotone ==
  (pc = "done" /\ probe.op = "lookAhead" /\ probe.found)
  => \A d \in 0..probe.trimLen : lookAhead(probe.v, probe.dir, d, g)

C8_Witness ==
  /\ pc = "done" /\ probe.op = "lookAhead" /\ probe.found
  /\ probe.trimLen >= 2
  /\ Len(neighbours(probe.v, probe.dir, g)) >= 2

\* the graph is one linear chain: a first vertex without predecessor, and
\* from it every vertex that has an edge, each with at most one edge in and
\* one edge out
IsLinearChain(gr) ==
  /\ Support(gr) # {}
  /\ \A v \in Support(gr) : Len(gr.out[v]) <= 1 /\ Len(gr.in[v]) <= 1
  /\ \E v \in Support(gr) : Len(gr.in[v]) = 0 /\ Reach(v, NumVertices, gr) = Support(gr)

ChainStart(gr) == CHOOSE v \in Support(gr) : Len(gr.in[v]) = 0
ChainEnd(gr) == CHOOSE v \in Support(gr) : Len(gr.out[v]) = 0

\* the vertices of the chain from v on, in order
RECURSIVE ChainSeq(_, _)
ChainSeq(v, gr) ==
  IF Len(gr.out[v]) = 0 THEN <<v>> ELSE <<v>> \o ChainSeq(gr.out[v][1], gr)

\* a call on a linear chain, from the one-vertex path at the end of the
\* chain that extension in direction dir leaves from, nothing else visited
OnChain ==
  /\ Returned
  /\ IsLinearChain(g)
  /\ Len(origPath) = 1
  /\ origVisited = Range(origPath)
  /\ origPath[1] = (IF dir = FORWARD THEN ChainStart(g) ELSE ChainEnd(g))

\* C11: a call entered with a path shorter than maxLen never returns a path
\* longer than maxLen; EXTENDED_TO_LENGTH_LIMIT comes with a path of exactly
\* maxLen vertices; and on a linear chain of more than maxLen vertices,
\* from the one-vertex path at its start, the result is
\* EXTENDED_TO_LENGTH_LIMIT.
C11_LengthLimitKept ==
  (Returned /\ Len(origPath) < maxLen)
  => /\ Len(path) <= maxLen
     /\ ret = EXTENDED_TO_LENGTH_LIMIT => Len(path) = maxLen
     /\ (OnChain /\ Cardinality(Support(g)) > maxLen) => ret = EXTENDED_TO_LENGTH_LIMIT

C11_Witness ==
  /\ OnChain
  /\ Cardinality(Support(g)) = 3
  /\ maxLen = 2
  /\ ret = EXTENDED_TO_LENGTH_LIMIT
  /\ Len(path) = 2
  /\ steps = 1

\* C12: a call entered with a path of maxLen vertices or more returns
\* LENGTH_LIMIT without a loop iteration and leaves path and visited set as
\* they were, whatever the frontier's neighbourhood is; and LENGTH_LIMIT is
\* returned by no other call.
C12_LengthLimitOnEntry ==
  Returned
  => /\ Len(origPath) >= maxLen
          => (ret = LENGTH_LIMIT /\ path = origPath /\ visited = origVisited /\ steps = 0)
     /\ ret = LENGTH_LIMIT => Len(origPath) >= maxLen

C12_Witness ==
  /\ Returned
  /\ Len(origPath) = 2 /\ maxLen = 2
  /\ ret = LENGTH_LIMIT
  /\ path = origPath
  /\ getSingleVertexExtension(frontier(path, dir), dir, g, trimLen, NULL).result = SE_EXTENDED

\* C13: extendPathBySingleVertex leaves the path as it was when it returns
\* SE_DEAD_END or SE_BRANCHING_POINT; when it returns SE_EXTENDED the path
\* has exactly one vertex more, at the back for FORWARD and at the front for
\* REVERSE, and the vertices it had keep their order.
C13_SingleVertexFrame ==
  (pc = "done" /\ probe.op = "extendPathBySingleVertex")
  => IF probe.result = SE_EXTENDED
       THEN /\ Len(probe.pathAfter) = Len(probe.pathBefore) + 1
            /\ IF probe.dir = FORWARD
                 THEN SubSeq(probe.pathAfter, 1, Len(probe.pathBefore)) = probe.pathBefore
                 ELSE SubSeq(probe.pathAfter, 2, Len(probe.pathAfter)) = probe.pathBefore
       ELSE /\ probe.result \in {SE_DEAD_END, SE_BRANCHING_POINT}
            /\ probe.pathAfter = probe.pathBefore

C13_Witness ==
  /\ pc = "done" /\ probe.op = "extendPathBySingleVertex"
  /\ probe.dir = REVERSE
  /\ probe.result = SE_EXTENDED
  /\ Len(probe.pathBefore) = 2
  /\ Len(probe.pathAfter) = 3
  /\ probe.pathAfter[1] # probe.pathBefore[2]

\* one call of extendPath, under a scheduler that lets the call run on
NextFair == Call \/ CallSeeded \/ Step \/ Return

SpecFair == Init /\ [][NextFair]_vars /\ WF_vars(NextFair)

\* a loop iteration after which the loop goes on has added one vertex, and
\* that vertex was not in the visited set before
ProgressStep ==
  (pc = "loop" /\ pc' = "loop" /\ loopCondition(result', detectedCycle', path', maxLen))
  => /\ Len(path') = Len(path) + 1
     /\ frontier(path', dir) \notin visited
     /\ visited' = visited \cup {frontier(path', dir)}

\* C14: extendPath terminates on every graph, cyclic ones and maxLen =
\* NO_LIMIT included: a call always reaches its return, because every loop
\* iteration that does not stop adds a vertex that was not yet visited.
C14_Terminates ==
  /\ [][ProgressStep]_vars
  /\ <>(pc = "done")

C14_Witness ==
  /\ Returned
  /\ maxLen = NO_LIMIT
  /\ IsSingleCycle(g)
  /\ steps = 3
  /\ ret = EXTENDED_TO_CYCLE

\* C15: the extension is maximal.  After DEAD_END or EXTENDED_TO_DEAD_END
\* getSingleVertexExtension on the frontier of the returned path gives
\* SE_DEAD_END, after BRANCHING_POINT or EXTENDED_TO_BRANCHING_POINT it
\* gives SE_BRANCHING_POINT; and on a linear chain, with trimLen 0 and no
\* length limit, the path started at the chain's first vertex ends as the
\* whole chain in order, with result EXTENDED_TO_DEAD_END.
C15_Maximal ==
  Returned
  => /\ ret \in {DEAD_END, EXTENDED_TO_DEAD_END}
          => \A w \in Vertex :
               getSingleVertexExtension(frontier(path, dir), dir, g, trimLen, w).result
                 = SE_DEAD_END
     /\ ret \in {BRANCHING_POINT, EXTENDED_TO_BRANCHING_POINT}
          => \A w \in Vertex :
               getSingleVertexExtension(frontier(path, dir), dir, g, trimLen, w).result
                 = SE_BRANCHING_POINT
     /\ (OnChain /\ trimLen = 0 /\ maxLen = NO_LIMIT)
          => (ret = EXTENDED_TO_DEAD_END /\ path = ChainSeq(ChainStart(g), g))

C15_Witness ==
  /\ OnChain /\ trimLen = 0 /\ maxLen = NO_LIMIT
  /\ dir = FORWARD
  /\ Cardinality(Support(g)) = 3
  /\ ret = EXTENDED_TO_DEAD_END
  /\ Len(path) = 3
  /\ path[1] = origPath[1]

\* every vertex of p but the last has an edge to the next one
Chained(p, gr) == \A i \in 1..Len(p) - 1 : p[i + 1] \in Range(gr.out[p[i]])

\* C16 (as claimed): every vertex extendPath adds is a neighbour of the
\* previous frontier: if consecutive vertices of the entry path are joined
\* by edges p[i] -> p[i+1], so are those of the returned path, for any
\* direction, trimLen and maxLen, in a first call and in a call that
\* follows it.
C16_PathFollowsEdges ==
  (Returned /\ Chained(origPath, g)) => Chained(path, g)

\* the vertices a call added and kept, in path order
Added ==
  IF dir = FORWARD THEN SubSeq(path, Len(origPath) + 1, Len(path))
  ELSE SubSeq(path, 1, Len(path) - Len(origPath))

\* C17: after a call whose visited set held every vertex of the entry path,
\* the visited set is its entry value plus exactly the vertices added to and
\* kept in the path, so it holds every vertex of the returned path; after a
\* non-extended result it is unchanged; the vertices added are pairwise
\* distinct and none was in the visited set on entry.
C17_VisitedIsEntryPlusAdded ==
  (Returned /\ EntryContract)
  => /\ visited = origVisited \cup Range(Added)
     /\ Range(path) \subseteq visited
     /\ ~pathExtended(ret) => visited = origVisited
     /\ NoDuplicates(Added)
     /\ Range(Added) \cap origVisited = {}

C17_Witness ==
  /\ Returned /\ EntryContract
  /\ ret = EXTENDED_TO_CYCLE
  /\ Len(Added) = 1
  /\ steps = 2
  /\ origVisited # Range(origPath)
  /\ visited = origVisited \cup Range(Added)

\* C18: extendPath changes only the end of the path it extends: the entry
\* path is a prefix of the returned path for FORWARD and a suffix of it for
\* REVERSE, and after a non-extended result the returned path is the entry
\* path.
C18_OnlyTheEndChanges ==
  Returned
  => /\ Len(path) >= Len(origPath)
     /\ IF dir = FORWARD
          THEN SubSeq(path, 1, Len(origPath)) = origPath
          ELSE SubSeq(path, Len(path) - Len(origPath) + 1, Len(path)) = origPath
     /\ ~pathExtended(ret) => path = origPath

C18_Witness ==
  /\ Returned
  /\ dir = REVERSE
  /\ ret = CYCLE
  /\ steps = 1
  /\ Len(origPath) = 2
  /\ origPath[1] # origPath[2]
  /\ path = origPath

\* the non-extended result that goes with r
Counterpart(r) ==
  CASE r \in {DEAD_END, EXTENDED_TO_DEAD_END} -> DEAD_END
    [] r \in {BRANCHING_POINT, EXTENDED_TO_BRANCHING_POINT} -> BRANCHING_POINT
    [] r \in {CYCLE, EXTENDED_TO_CYCLE} -> CYCLE
    [] r \in {LENGTH_LIMIT, EXTENDED_TO_LENGTH_LIMIT} -> LENGTH_LIMIT

\* the second of two calls with the same arguments has returned
ReturnedAgain == Returned /\ first.ret # NONE

\* C19 (as claimed): extendPath is idempotent on its own output: a second
\* call with the same direction, graph, trimLen and maxLen on the path and
\* the visited set a first call left changes neither and returns the
\* non-extended counterpart of the first call's result.
C19_Idempotent ==
  ReturnedAgain
  => /\ path = first.path
     /\ visited = first.visited
     /\ ret = Counterpart(first.ret)

\* C20: lookAhead has no false positives: when it returns true the graph has
\* a simple path from start in direction dir with depthLimit vertices after
\* start; and no call of the recursion is entered deeper than depthLimit.
C20_NoFalsePositive ==
  (pc = "done" /\ probe.op = "lookAhead")
  => /\ probe.found => HasSimplePath(probe.v, probe.dir, probe.trimLen, {probe.v}, g)
     /\ probe.deepest <= probe.trimLen

C20_Witness ==
  /\ pc = "done" /\ probe.op = "lookAhead"
  /\ probe.found
  /\ probe.trimLen = 2
  /\ probe.deepest = 2
  /\ \E w \in Range(neighbours(probe.v, probe.dir, g)) :
       /\ w # probe.v
       /\ probe.v \in Range(neighbours(w, probe.dir, g))

====
